---- MODULE Spec2Model ----
(***************************************************************************)
(* Model of recipe-scraper's schema.org decoder (src/src/schema_org.rs).   *)
(*                                                                         *)
(* The program is a set of pure decoders: serde-derived Deserialize impls  *)
(* over JSON values, plus extract_recipes and scrape_html.  Every decoder  *)
(* is an operator from a JSON value to a Result; the state machine applies *)
(* one operation per step to an input drawn from a bounded set and records *)
(* the input and the result.                                               *)
(*                                                                         *)
(* JSON values are tagged records (what serde buffers as `Content` before  *)
(* it tries the variants of an untagged enum):                             *)
(*   [t |-> "null"]  [t |-> "bool", b]  [t |-> "num", n]  [t |-> "str", s] *)
(*   [t |-> "arr", a |-> sequence of values]                               *)
(*   [t |-> "obj", o |-> sequence of <<key, value>> pairs, keys distinct]  *)
(* A Result is [ok |-> TRUE, v |-> value] or [ok |-> FALSE]; an Option is  *)
(* [k |-> "None"] or [k |-> "Some", v |-> value].                          *)
(***************************************************************************)
EXTENDS Integers, Sequences, FiniteSets, TLC

VARIABLES op, input, decoded, out

vars == <<op, input, decoded, out>>

(* ------------------------------ bounds -------------------------------- *)

\* Longest JSON array drawn as an input (ingredients, instructions, yields,
\* @graph entries, top-level item arrays).
MaxLen == 2

\* Most elements in an HTML document handed to scrape_html.
MaxBlocks == 3

(* --------------------------- JSON and Result -------------------------- *)

JNull == [t |-> "null"]

JBool(b) == [t |-> "bool", b |-> b]

JNum(n) == [t |-> "num", n |-> n]

JStr(s) == [t |-> "str", s |-> s]

JArr(a) == [t |-> "arr", a |-> a]

JObj(o) == [t |-> "obj", o |-> o]

Ok(v) == [ok |-> TRUE, v |-> v]

Err == [ok |-> FALSE]

None == [k |-> "None"]

Some(v) == [k |-> "Some", v |-> v]

\* Whether the pair sequence o has the key.
HasKey(o, key) == \E i \in DOMAIN o : o[i][1] = key

\* The value under a key the pair sequence has.
Get(o, key) == o[CHOOSE i \in DOMAIN o : o[i][1] = key][2]

\* All sequences over S of length at most n.
SeqsUpTo(S, n) == UNION {[1..k -> S] : k \in 0..n}

(* ------------------------- serde building blocks ---------------------- *)

\* What a struct decodes a field from when the map lacks its key.
Missing == [t |-> "missing"]

\* The value a map holds under a key, or Missing.
Lookup(o, key) == IF HasKey(o, key) THEN Get(o, key) ELSE Missing

\* An untagged enum tries its variants in declaration order and commits to
\* the first that decodes: a, or else b.
OrElse(a, b) == IF a.ok THEN a ELSE b

\* The variant `tag`, its payload r held under `field`; r's error is the
\* variant's.
Variant(tag, field, r) ==
    IF r.ok THEN Ok([x \in {"k", field} |-> IF x = "k" THEN tag ELSE r.v]) ELSE Err

\* A struct or a vector decodes iff every field or element does; the first
\* error fails the whole value.
AllOk(f) ==
    IF \A x \in DOMAIN f : f[x].ok THEN Ok([x \in DOMAIN f |-> f[x].v]) ELSE Err

\* String: only a JSON string deserializes as a String.
DeString(v) == IF v.t = "str" THEN Ok(v.s) ELSE Err

\* f64: only a JSON number deserializes as an f64.
DeF64(v) == IF v.t = "num" THEN Ok(v.n) ELSE Err

\* Option<T> decoded from v, r being T decoded from v: a missing key or a
\* null is None; any other value must decode as T, and its error propagates.
Option(v, r) ==
    IF v.t \in {"null", "missing"} THEN Ok(None)
    ELSE IF r.ok THEN Ok(Some(r.v)) ELSE Err

\* The one field of an untagged struct variant, which is read from a map
\* only; the map's other keys are ignored.
VariantField(v, key) == IF v.t = "obj" THEN DeString(Lookup(v.o, key)) ELSE Err

IsSome(x) == x.k = "Some"

IsOk(r) == r.ok

(* ---------------------------- MaybeDuration --------------------------- *)

Dur(y, mo, d, h, mi, s) ==
    [year |-> y, month |-> mo, day |-> d, hour |-> h, minute |-> mi, second |-> s]

\* The ISO-8601 duration grammar (an external parser), tabulated on the
\* strings the model draws; every other string is a parse failure.
DurationParse(s) ==
    CASE s = "PT2S"   -> Ok(Dur(0, 0, 0, 0, 0, 2))
      [] s = "PT15M"  -> Ok(Dur(0, 0, 0, 0, 15, 0))
      [] s = "P1DT1H" -> Ok(Dur(0, 0, 1, 1, 0, 0))
      [] OTHER        -> Err

\* Duration's Deserialize: a string that the grammar accepts.
DeDuration(v) == IF v.t = "str" THEN DurationParse(v.s) ELSE Err

\* Result::ok.
ResultOk(r) == IF r.ok THEN Some(r.v) ELSE None

\* A mutant: the inner error is propagated instead of collapsed.
DeMaybeDuration_propagate(v) ==
    IF DeDuration(v).ok THEN Ok(Some(DeDuration(v).v)) ELSE Err

\* impl Deserialize for MaybeDuration: Ok(Self(inner.ok())).
DeMaybeDuration(v) == Ok(ResultOk(DeDuration(v)))

\* Option<MaybeDuration>, the type of cook_time, prep_time and total_time.
DeOptionMaybeDuration(v) == Option(v, DeMaybeDuration(v))

(* ---------------------------- IngredientList -------------------------- *)

\* Vec<String>: an array, every element of which is a string.
DeStrings(v) ==
    IF v.t = "arr" THEN AllOk([i \in DOMAIN v.a |-> DeString(v.a[i])]) ELSE Err

\* Untagged: Single(String), then Multi(Vec<String>).
DeIngredientList(v) ==
    OrElse(Variant("Single", "s", DeString(v)),
           Variant("Multi", "ss", DeStrings(v)))

\* A mutant: the single string is dropped instead of wrapped.
ingredients_into_iter_drop(l) == IF l.k = "Single" THEN <<>> ELSE l.ss

\* IntoIterator for IngredientList.
ingredients_into_iter(l) == IF l.k = "Single" THEN <<l.s>> ELSE l.ss

(* ------------------- Instruction and InstructionList ------------------ *)

\* Untagged: Simple(String), then Structured { text }.
DeInstruction(v) ==
    OrElse(Variant("Simple", "s", DeString(v)),
           Variant("Structured", "text", VariantField(v, "text")))

\* Display for Instruction: its text.
instruction_fmt(i) == IF i.k = "Simple" THEN i.s ELSE i.text

\* Vec<Instruction>: one element that is no instruction fails the vector.
DeInstructions(v) ==
    IF v.t = "arr" THEN AllOk([i \in DOMAIN v.a |-> DeInstruction(v.a[i])]) ELSE Err

\* A derived struct: read from a map by key (unknown keys ignored), or, as
\* every serde-derived struct, positionally from a sequence holding exactly
\* its fields in declaration order.
DeInstructionSection(v) ==
    CASE v.t = "obj" ->
           AllOk([name       |-> DeString(Lookup(v.o, "name")),
                  directions |-> DeInstructions(Lookup(v.o, "itemListElement"))])
      [] v.t = "arr" /\ Len(v.a) = 2 ->
           AllOk([name       |-> DeString(v.a[1]),
                  directions |-> DeInstructions(v.a[2])])
      [] OTHER -> Err

\* Vec<InstructionSection>.
DeSections(v) ==
    IF v.t = "arr" THEN AllOk([i \in DOMAIN v.a |-> DeInstructionSection(v.a[i])])
    ELSE Err

\* A mutant: the sectioned shape is tried before the plain sequence.
DeInstructionList_sections_first(v) ==
    OrElse(Variant("Single", "i", DeInstruction(v)),
    OrElse(Variant("Sections", "secs", DeSections(v)),
           Variant("Multi", "is", DeInstructions(v))))

\* Untagged: Single(Instruction), Multi(Vec<Instruction>),
\* Sections(Vec<InstructionSection>), first match wins.
DeInstructionList(v) ==
    OrElse(Variant("Single", "i", DeInstruction(v)),
    OrElse(Variant("Multi", "is", DeInstructions(v)),
           Variant("Sections", "secs", DeSections(v))))

\* InstructionList::directions: the flat view, absent for Sections.
directions(l) ==
    CASE l.k = "Single"   -> Some(<<l.i>>)
      [] l.k = "Multi"    -> Some(l.is)
      [] l.k = "Sections" -> None

\* InstructionList::sections: the sectioned view, absent otherwise.
sections(l) == IF l.k = "Sections" THEN Some(l.secs) ELSE None

\* Option<InstructionList>, the type of directions.
DeOptionInstructionList(v) == Option(v, DeInstructionList(v))

(* --------------------------- Quantity and Yield ----------------------- *)

\* Untagged: Number(f64), then String(String).
DeQuantity(v) ==
    OrElse(Variant("Number", "n", DeF64(v)),
           Variant("String", "s", DeString(v)))

\* Default for Quantity.
quantity_default == [k |-> "String", s |-> "N/A"]

Digit(d) ==
    CASE d = 0 -> "0" [] d = 1 -> "1" [] d = 2 -> "2" [] d = 3 -> "3"
      [] d = 4 -> "4" [] d = 5 -> "5" [] d = 6 -> "6" [] d = 7 -> "7"
      [] d = 8 -> "8" [] d = 9 -> "9"

RECURSIVE Decimal(_)
Decimal(n) == IF n < 10 THEN Digit(n) ELSE Decimal(n \div 10) \o Digit(n % 10)

\* Display for f64, on the integral values the model draws.
f64_fmt(n) == IF n < 0 THEN "-" \o Decimal(0 - n) ELSE Decimal(n)

\* Display for Quantity.
quantity_fmt(q) == IF q.k = "Number" THEN f64_fmt(q.n) ELSE q.s

\* Vec<Quantity>.
DeQuantities(v) ==
    IF v.t = "arr" THEN AllOk([i \in DOMAIN v.a |-> DeQuantity(v.a[i])]) ELSE Err

\* Untagged: Single(Quantity), then Multi(Vec<Quantity>).
DeYield(v) ==
    OrElse(Variant("Single", "q", DeQuantity(v)),
           Variant("Multi", "qs", DeQuantities(v)))

\* Option<Yield>, the type of yields.
DeOptionYield(v) == Option(v, DeYield(v))

\* A mutant: a sequence displays its last element.
yield_fmt_last(y) ==
    IF y.k = "Single" THEN quantity_fmt(y.q)
    ELSE IF Len(y.qs) > 0 THEN quantity_fmt(y.qs[Len(y.qs)])
    ELSE quantity_fmt(quantity_default)

\* Display for Yield.
yield_fmt(y) ==
    IF y.k = "Single" THEN quantity_fmt(y.q)
    ELSE IF Len(y.qs) > 0 THEN quantity_fmt(y.qs[1])
    ELSE quantity_fmt(quantity_default)

(* -------------------------------- Recipe ------------------------------ *)

\* A mutant: a missing description defaults to the empty string.
DescriptionField_default(o) ==
    IF HasKey(o, "description") THEN DeString(Get(o, "description")) ELSE Ok("")

\* description: String, a mandatory field.
DescriptionField(o) == DeString(Lookup(o, "description"))

\* The struct's fields read from a map, by their serde names; keys that
\* name no field are ignored.
RecipeFields(o) ==
    [name        |-> DeString(Lookup(o, "name")),
     description |-> DescriptionField(o),
     cook_time   |-> DeOptionMaybeDuration(Lookup(o, "cookTime")),
     prep_time   |-> DeOptionMaybeDuration(Lookup(o, "prepTime")),
     total_time  |-> DeOptionMaybeDuration(Lookup(o, "totalTime")),
     yields      |-> DeOptionYield(Lookup(o, "recipeYield")),
     ingredients |-> DeIngredientList(Lookup(o, "recipeIngredient")),
     directions  |-> DeOptionInstructionList(Lookup(o, "recipeInstructions"))]

\* The struct's fields read positionally from a sequence of exactly eight
\* elements, in declaration order.
RecipeElements(a) ==
    [name        |-> DeString(a[1]),
     description |-> DeString(a[2]),
     cook_time   |-> DeOptionMaybeDuration(a[3]),
     prep_time   |-> DeOptionMaybeDuration(a[4]),
     total_time  |-> DeOptionMaybeDuration(a[5]),
     yields      |-> DeOptionYield(a[6]),
     ingredients |-> DeIngredientList(a[7]),
     directions  |-> DeOptionInstructionList(a[8])]

\* #[derive(Deserialize)] struct Recipe: any field's error fails the record.
DeRecipe(v) ==
    CASE v.t = "obj"                  -> AllOk(RecipeFields(v.o))
      [] v.t = "arr" /\ Len(v.a) = 8  -> AllOk(RecipeElements(v.a))
      [] OTHER                        -> Err

(* ------------------------------ envelope ------------------------------ *)

\* Untagged: Recipe(Box<Recipe>), then Nonsense { @id: String }.
DeGraphEntry(v) ==
    OrElse(Variant("Recipe", "r", DeRecipe(v)),
           Variant("Nonsense", "id", VariantField(v, "@id")))

\* Untagged: Recipe(Box<Recipe>), then Nonsense { @context: String }.
DeSchemaItem(v) ==
    OrElse(Variant("Recipe", "r", DeRecipe(v)),
           Variant("Nonsense", "context", VariantField(v, "@context")))

MatchesGraphEntry(v) == DeGraphEntry(v).ok

\* A mutant: a @graph entry that matches no variant is skipped, not fatal.
DeGraphEntries_skip_unmatched(v) ==
    IF v.t = "arr"
    THEN LET kept == SelectSeq(v.a, MatchesGraphEntry)
         IN  Ok([i \in DOMAIN kept |-> DeGraphEntry(kept[i]).v])
    ELSE Err

\* Vec<GraphEntry>: one entry that matches no variant fails the vector.
DeGraphEntries(v) ==
    IF v.t = "arr" THEN AllOk([i \in DOMAIN v.a |-> DeGraphEntry(v.a[i])]) ELSE Err

\* Vec<SchemaItem>.
DeSchemaItems(v) ==
    IF v.t = "arr" THEN AllOk([i \in DOMAIN v.a |-> DeSchemaItem(v.a[i])]) ELSE Err

\* The Graph variant's field, the variant being read from a map only.
GraphField(v) == IF v.t = "obj" THEN DeGraphEntries(Lookup(v.o, "@graph")) ELSE Err

\* Untagged: Graph { @graph: Vec<GraphEntry> }, Single(SchemaItem),
\* Multi(Vec<SchemaItem>), first match wins.
DeSchemaEntry(v) ==
    OrElse(Variant("Graph", "graph", GraphField(v)),
    OrElse(Variant("Single", "item", DeSchemaItem(v)),
           Variant("Multi", "items", DeSchemaItems(v))))

\* GraphEntry::recipe and SchemaItem::recipe.
recipe(e) == IF e.k = "Recipe" THEN Some(e.r) ELSE None

HasRecipe(e) == IsSome(recipe(e))

\* iter().filter_map(|e| e.recipe()).cloned().collect()
Recipes(es) ==
    LET kept == SelectSeq(es, HasRecipe) IN [i \in DOMAIN kept |-> recipe(kept[i]).v]

RECURSIVE Dedup(_)
Dedup(s) ==
    IF s = <<>> THEN <<>>
    ELSE LET front == Dedup(SubSeq(s, 1, Len(s) - 1))
             last  == s[Len(s)]
         IN  IF \E i \in DOMAIN front : front[i] = last
             THEN front ELSE Append(front, last)

\* A mutant: equal recipes are collapsed into one.
extract_recipes_dedup(e) ==
    CASE e.k = "Graph"  -> Dedup(Recipes(e.graph))
      [] e.k = "Single" -> Dedup(Recipes(<<e.item>>))
      [] e.k = "Multi"  -> Dedup(Recipes(e.items))

\* Extract for SchemaEntry.
extract_recipes(e) ==
    CASE e.k = "Graph"  -> Recipes(e.graph)
      [] e.k = "Single" -> Recipes(<<e.item>>)
      [] e.k = "Multi"  -> Recipes(e.items)

(* -------------------------------- scrape ------------------------------ *)

\* Recipe objects as JSON, used by the JSON texts and the envelope inputs.
RecipeObj(name) ==
    JObj(<< <<"name", JStr(name)>>, <<"description", JStr("d")>>,
            <<"recipeIngredient", JStr("i")>> >>)

TextRecipeHead == "{\"name\":\"n\","

TextRecipeTail == "\"description\":\"d\",\"recipeIngredient\":\"i\"}"

TextContext == "{\"@context\":\"c\"}"

TextEmptyArray == "[]"

TextNumber == "3"

\* The JSON syntax parser (external), tabulated on the texts the model
\* draws; every other text is a syntax error.
JsonParse(text) ==
    CASE text = TextRecipeHead \o TextRecipeTail -> Ok(RecipeObj("n"))
      [] text = TextContext    -> Ok(JObj(<< <<"@context", JStr("c")>> >>))
      [] text = TextEmptyArray -> Ok(JArr(<<>>))
      [] text = TextNumber     -> Ok(JNum(3))
      [] OTHER                 -> Err

\* SchemaEntry::from_json_str: a syntax error or no matching envelope.
from_json_str(text) ==
    LET json == JsonParse(text) IN IF json.ok THEN DeSchemaEntry(json.v) ELSE Err

\* SchemaEntry::from_json_value.
from_json_value(v) == DeSchemaEntry(v)

RECURSIVE Concat(_)
\* el.text().collect::<String>(): the element's text nodes, concatenated.
Concat(chunks) ==
    IF chunks = <<>> THEN "" ELSE chunks[1] \o Concat(Tail(chunks))

\* The static selector script[type="application/ld+json"].
Selected(el) == el.tag = "script" /\ el.type = "application/ld+json"

\* filter_map(try_from_json): the blocks that decoded, in order.
FilterMapOk(rs) ==
    LET kept == SelectSeq(rs, IsOk) IN [i \in DOMAIN kept |-> kept[i].v]

RECURSIVE TakeWhileOk(_)
TakeWhileOk(rs) ==
    IF rs = <<>> \/ ~rs[1].ok THEN <<>>
    ELSE <<rs[1].v>> \o TakeWhileOk(Tail(rs))

\* A mutant: the first block that fails to decode ends the scan.
scrape_html_stop_at_failure(doc) ==
    LET els == SelectSeq(doc, Selected)
    IN  TakeWhileOk([i \in DOMAIN els |-> from_json_str(Concat(els[i].text))])

\* Scrape for SchemaEntry; doc is the parsed document's elements in
\* document order.
scrape_html(doc) ==
    LET els == SelectSeq(doc, Selected)
    IN  FilterMapOk([i \in DOMAIN els |-> from_json_str(Concat(els[i].text))])

(* -------------------------------- inputs ------------------------------ *)

\* JSON values of every kind, for the wrong-type cases.
Scalars == {JNull, JBool(TRUE), JNum(2), JNum(15), JStr("2"), JStr("2 cups")}

DurationInputs ==
    {JStr("PT2S"), JStr("PT15M"), JStr("P1DT1H"), JStr("PTnullH"), JStr(""),
     JStr("15 minutes"), JNum(5), JNull, JBool(FALSE), JArr(<<>>),
     JArr(<<JStr("PT2S")>>), JObj(<<>>), JObj(<< <<"text", JStr("PT2S")>> >>)}

IngredientElements ==
    {JStr("The first ingredient"), JStr("The second one"), JNum(3), JArr(<<>>)}

IngredientInputs ==
    {JStr("The first ingredient.\nThe second one."), JStr("An ingredient. Another one"),
     JNum(3), JNull, JObj(<< <<"text", JStr("x")>> >>)}
    \cup {JArr(a) : a \in SeqsUpTo(IngredientElements, MaxLen)}

StepObj == JObj(<< <<"name", JStr("b")>>, <<"text", JStr("c")>> >>)

TextOnlyObj == JObj(<< <<"text", JStr("d")>> >>)

SectionObj(name, steps) ==
    JObj(<< <<"name", JStr(name)>>, <<"itemListElement", JArr(steps)>> >>)

InstructionElements ==
    {JStr("a"), StepObj, TextOnlyObj,
     JObj(<< <<"text", JNum(5)>> >>),
     JObj(<< <<"name", JStr("b")>> >>),
     SectionObj("Prep", <<JObj(<< <<"name", JStr("x")>>, <<"text", JStr("x")>> >>)>>),
     SectionObj("Cook", <<JStr("y")>>),
     SectionObj("Bad", <<JNum(3)>>),
     JObj(<< <<"name", JStr("b")>>, <<"text", JStr("c")>>,
             <<"itemListElement", JArr(<<JStr("e")>>)>> >>),
     JObj(<< <<"name", JNum(1)>>, <<"itemListElement", JArr(<<>>)>> >>),
     JArr(<<JStr("Prep"), JArr(<<JStr("x")>>)>>),
     JNum(3)}

InstructionInputs ==
    InstructionElements \cup {JNull}
    \cup {JArr(a) : a \in SeqsUpTo(InstructionElements, MaxLen)}

YieldInputs ==
    Scalars \cup {JObj(<<>>), JObj(<< <<"value", JNum(2)>> >>)}
    \cup {JArr(a) : a \in SeqsUpTo(Scalars, MaxLen)}

\* A key the object does not carry.
Absent == [t |-> "absent"]

Field(key, choice) == IF choice = Absent THEN <<>> ELSE << <<key, choice>> >>

RecipeObjects ==
    {JObj(Field("name", name) \o Field("description", description)
          \o Field("cookTime", cook) \o Field("prepTime", prep)
          \o Field("totalTime", total)
          \o Field("recipeYield", yields) \o Field("recipeIngredient", ingredients)
          \o Field("recipeInstructions", instructions)) :
        name \in {Absent, JStr("A recipe")},
        description \in {Absent, JStr("This is a recipe")},
        cook \in {Absent, JStr("PT2S"), JStr("PTnullH"), JNum(5), JNull},
        prep \in {Absent, JStr("PT15M")},
        total \in {Absent, JObj(<<>>)},
        yields \in {Absent, JNum(2), JArr(<<>>), JObj(<<>>)},
        ingredients \in {Absent, JStr("An ingredient. Another one"),
                         JArr(<<JStr("a"), JStr("b")>>),
                         JArr(<<JStr("a"), JNum(3)>>)},
        instructions \in {Absent, JStr("Do a thing. Do another thing"),
                          JArr(<<SectionObj("Prep", <<JStr("x")>>), JNum(3)>>)}}

\* The positional form of a record, and near misses of it.
RecipeArrays ==
    {JArr(<<JStr("n"), JStr("d"), JNull, JNull, JNull, JNull, JStr("i"), JNull>>),
     JArr(<<JStr("n"), JStr("d"), JStr("PT2S"), JNull, JNum(1), JNum(2),
            JArr(<<JStr("a")>>), JStr("s")>>),
     JArr(<<JStr("n"), JStr("d"), JStr("i")>>),
     JArr(<<JStr("n"), JStr("d"), JNull, JNull, JNull, JObj(<<>>), JStr("i"), JNull>>)}

RecipeInputs ==
    RecipeObjects \cup RecipeArrays
    \cup {JNull, JStr("A recipe"),
          JObj(<< <<"name", JNum(1)>>, <<"description", JStr("d")>>,
                  <<"recipeIngredient", JStr("i")>> >>),
          JObj(<< <<"@id", JStr("#r")>>, <<"name", JStr("n")>>,
                  <<"description", JStr("d")>>, <<"recipeIngredient", JNum(3)>> >>)}

\* Objects as they appear side by side in a JSON-LD document.
Items ==
    {RecipeObj("n1"), RecipeObj("n2"),
     JObj(<< <<"@id", JStr("#r")>>, <<"@context", JStr("c")>> >> \o RecipeObj("n3").o),
     JObj(<< <<"@id", JStr("#bad")>>, <<"recipeYield", JObj(<<>>)>> >> \o RecipeObj("n4").o),
     JObj(<< <<"@id", JStr("#org")>> >>),
     JObj(<< <<"@context", JStr("c")>> >>),
     JObj(<< <<"@id", JStr("#both")>>, <<"@context", JStr("c")>> >>),
     JObj(<< <<"@type", JStr("Organization")>> >>),
     JObj(<< <<"@id", JNum(5)>> >>),
     JStr("s")}

\* What a top-level object carries next to "@graph".
GraphSiblings ==
    {<<>>, << <<"@context", JStr("c")>> >>, RecipeObj("top").o,
     << <<"@context", JStr("c")>> >> \o RecipeObj("top").o}

EnvelopeInputs ==
    Items
    \cup {JArr(a) : a \in SeqsUpTo(Items, MaxLen)}
    \cup {JObj(<< <<"@graph", JArr(a)>> >> \o sib) :
            a \in SeqsUpTo(Items, MaxLen), sib \in GraphSiblings}
    \cup {JObj(<< <<"@graph", RecipeObj("n1")>> >>),
          JObj(<< <<"@graph", RecipeObj("n1")>>, <<"@context", JStr("c")>> >>),
          JNull, JNum(3)}
    \cup RecipeArrays

Script(chunks) == [tag |-> "script", type |-> "application/ld+json", text |-> chunks]

Elements ==
    {Script(<<TextRecipeHead, TextRecipeTail>>), Script(<<TextRecipeHead>>),
     Script(<<TextContext>>), Script(<<TextEmptyArray>>), Script(<<TextNumber>>),
     Script(<<>>),
     [tag |-> "script", type |-> "text/javascript", text |-> <<TextContext>>],
     [tag |-> "div", type |-> "application/ld+json", text |-> <<TextContext>>]}

Documents == SeqsUpTo(Elements, MaxBlocks)

(* ------------------------------ operations ---------------------------- *)

Init ==
    /\ op = "start"
    /\ input = JNull
    /\ decoded = Err
    /\ out = None

\* The call's input and result are recorded.
Returned(name, v, result) ==
    /\ op' = name
    /\ input' = v
    /\ decoded' = result
    /\ out' = None

\* serde_json::from_value::<MaybeDuration>(v)
DecodeMaybeDuration ==
    \E v \in DurationInputs :
        /\ op = "start"
        /\ Returned("MaybeDuration", v, DeMaybeDuration(v))

\* serde_json::from_value::<IngredientList>(v)
DecodeIngredientList ==
    \E v \in IngredientInputs :
        /\ op = "start"
        /\ Returned("IngredientList", v, DeIngredientList(v))

\* into_iter() on the decoded list.
IngredientsIntoIter ==
    /\ op = "IngredientList"
    /\ decoded.ok
    /\ op' = "into_iter"
    /\ out' = ingredients_into_iter(decoded.v)
    /\ UNCHANGED <<input, decoded>>

\* serde_json::from_value::<InstructionList>(v)
DecodeInstructionList ==
    \E v \in InstructionInputs :
        /\ op = "start"
        /\ Returned("InstructionList", v, DeInstructionList(v))

\* directions(), each instruction rendered through Display.
DirectionsText(l) ==
    IF IsSome(directions(l))
    THEN Some([i \in DOMAIN directions(l).v |-> instruction_fmt(directions(l).v[i])])
    ELSE None

\* directions() and sections() on the decoded list.
InstructionListViews ==
    /\ op = "InstructionList"
    /\ decoded.ok
    /\ op' = "views"
    /\ out' = [directions |-> DirectionsText(decoded.v), sections |-> sections(decoded.v)]
    /\ UNCHANGED <<input, decoded>>

\* serde_json::from_value::<Yield>(v)
DecodeYield ==
    \E v \in YieldInputs :
        /\ op = "start"
        /\ Returned("Yield", v, DeYield(v))

\* to_string() on the decoded yield.
YieldDisplay ==
    /\ op = "Yield"
    /\ decoded.ok
    /\ op' = "yield_fmt"
    /\ out' = yield_fmt(decoded.v)
    /\ UNCHANGED <<input, decoded>>

\* serde_json::from_value::<Recipe>(v)
DecodeRecipe ==
    \E v \in RecipeInputs :
        /\ op = "start"
        /\ Returned("Recipe", v, DeRecipe(v))

\* SchemaEntry::from_json_value(v)
FromJsonValue ==
    \E v \in EnvelopeInputs :
        /\ op = "start"
        /\ Returned("SchemaEntry", v, from_json_value(v))

\* extract_recipes() on the decoded envelope.
ExtractRecipes ==
    /\ op = "SchemaEntry"
    /\ decoded.ok
    /\ op' = "extract_recipes"
    /\ out' = extract_recipes(decoded.v)
    /\ UNCHANGED <<input, decoded>>

\* SchemaEntry::scrape_html(doc)
ScrapeHtml ==
    \E doc \in Documents :
        /\ op = "start"
        /\ Returned("scrape_html", doc, scrape_html(doc))

Next ==
    \/ DecodeMaybeDuration
    \/ DecodeIngredientList
    \/ IngredientsIntoIter
    \/ DecodeInstructionList
    \/ InstructionListViews
    \/ DecodeYield
    \/ YieldDisplay
    \/ DecodeRecipe
    \/ FromJsonValue
    \/ ExtractRecipes
    \/ ScrapeHtml

Spec == Init /\ [][Next]_vars

(* ------------------------ shapes of JSON values ----------------------- *)

\* The shapes the properties speak of, stated on the JSON value itself.

JHasString(v, key) == v.t = "obj" /\ HasKey(v.o, key) /\ Get(v.o, key).t = "str"

JIsStrings(v) == v.t = "arr" /\ \A i \in DOMAIN v.a : v.a[i].t = "str"

JIsQuantity(v) == v.t \in {"num", "str"}

JIsInstruction(v) == v.t = "str" \/ JHasString(v, "text")

JIsInstructions(v) == v.t = "arr" /\ \A i \in DOMAIN v.a : JIsInstruction(v.a[i])

\* An object with a name and an itemListElement array of instructions.
JIsSectionObject(v) ==
    /\ JHasString(v, "name")
    /\ HasKey(v.o, "itemListElement")
    /\ JIsInstructions(Get(v.o, "itemListElement"))

\* The same two fields given positionally, as [name, [instructions]].
JIsSectionArray(v) ==
    /\ v.t = "arr"
    /\ Len(v.a) = 2
    /\ v.a[1].t = "str"
    /\ JIsInstructions(v.a[2])

JIsObjects(v) == v.t = "arr" /\ \A i \in DOMAIN v.a : v.a[i].t = "obj"

\* The display text of a JSON number or string taken as a quantity.
JQuantityText(v) == IF v.t = "num" THEN f64_fmt(v.n) ELSE v.s

\* The i-th of the indices in I, counted from 1 in increasing order.
Rank(I, i) == Cardinality({j \in I : j <= i})

(* ------------------------------ properties ---------------------------- *)

\* C7: decoding a MaybeDuration never fails.  A string the ISO-8601 grammar
\* accepts gives a present duration equal to the grammar's parse of it
\* ("PT2S" is two seconds); every other JSON value (a malformed string, a
\* wrong type, null) gives success holding absence.
C7_MaybeDurationNeverFails ==
    op = "MaybeDuration" =>
        /\ decoded.ok
        /\ IF input.t = "str" /\ DurationParse(input.s).ok
           THEN decoded.v = Some(DurationParse(input.s).v)
           ELSE decoded.v = None
        /\ input = JStr("PT2S") => decoded.v = Some(Dur(0, 0, 0, 0, 0, 2))

\* The malformed string "PTnullH" decoded to success holding absence.
C7_Witness ==
    op = "MaybeDuration" /\ input = JStr("PTnullH") /\ decoded = Ok(None)

\* C9: an IngredientList decoded from a bare string iterates to exactly
\* that one string, unsplit; one decoded from an array of strings iterates
\* to the array's elements, same order, same length.
C9_IngredientListIterates ==
    /\ op = "IngredientList" /\ (input.t = "str" \/ JIsStrings(input)) => decoded.ok
    /\ op = "into_iter" =>
        /\ input.t = "str" => out = <<input.s>>
        /\ input.t = "arr" =>
            /\ Len(out) = Len(input.a)
            /\ \A i \in DOMAIN input.a : JStr(out[i]) = input.a[i]

\* A string of two sentences over two lines iterated as one element.
C9_Witness ==
    /\ op = "into_iter"
    /\ input = JStr("The first ingredient.\nThe second one.")
    /\ Len(out) = 1

\* C8: a Yield is a single Quantity (a number stays a number, a string a
\* string, "2" included) or a sequence of them; it displays as the quantity
\* itself, as the first element of a non-empty sequence, and as "N/A" for
\* the empty sequence.
C8_YieldDecodeAndDisplay ==
    /\ op = "Yield" =>
        /\ input.t = "num" =>
            decoded = Ok([k |-> "Single", q |-> [k |-> "Number", n |-> input.n]])
        /\ input.t = "str" =>
            decoded = Ok([k |-> "Single", q |-> [k |-> "String", s |-> input.s]])
        /\ input.t = "arr" /\ (\A i \in DOMAIN input.a : JIsQuantity(input.a[i])) =>
            /\ decoded.ok
            /\ decoded.v.k = "Multi"
            /\ Len(decoded.v.qs) = Len(input.a)
            /\ \A i \in DOMAIN input.a :
                decoded.v.qs[i].k = (IF input.a[i].t = "num" THEN "Number" ELSE "String")
    /\ op = "yield_fmt" =>
        /\ JIsQuantity(input) => out = JQuantityText(input)
        /\ input.t = "arr" /\ Len(input.a) > 0 => out = JQuantityText(input.a[1])
        /\ input = JArr(<<>>) => out = "N/A"
        /\ input = JNum(15) => out = "15"

\* The empty array decoded as a Yield and displayed.
C8_Witness == op = "yield_fmt" /\ input = JArr(<<>>) /\ out = "N/A"

\* C4: decoding a JSON object as a Recipe fails whenever name, description
\* or recipeIngredient is absent, or recipeIngredient is neither a string nor
\* an array of strings; an object carrying just those three (strings, and a
\* string or an array of strings) decodes, with cook_time, prep_time,
\* total_time, yields and directions all absent.
C4_RecipeMandatoryFields ==
    op = "Recipe" /\ input.t = "obj" =>
        /\ (\/ ~HasKey(input.o, "name")
            \/ ~HasKey(input.o, "description")
            \/ ~HasKey(input.o, "recipeIngredient")
            \/ ~(\/ Get(input.o, "recipeIngredient").t = "str"
                 \/ JIsStrings(Get(input.o, "recipeIngredient"))))
           => ~decoded.ok
        /\ (/\ {input.o[i][1] : i \in DOMAIN input.o}
                   = {"name", "description", "recipeIngredient"}
            /\ JHasString(input, "name")
            /\ JHasString(input, "description")
            /\ (\/ JHasString(input, "recipeIngredient")
                \/ JIsStrings(Get(input.o, "recipeIngredient"))))
           => /\ decoded.ok
              /\ decoded.v.name = Get(input.o, "name").s
              /\ decoded.v.description = Get(input.o, "description").s
              /\ \A f \in {"cook_time", "prep_time", "total_time", "yields", "directions"} :
                    decoded.v[f] = None

\* An object with a name and ingredients but no description failed to decode.
C4_Witness ==
    /\ op = "Recipe"
    /\ input = JObj(<< <<"name", JStr("A recipe")>>,
                       <<"recipeIngredient", JStr("An ingredient. Another one")>> >>)
    /\ ~decoded.ok

\* The three mandatory fields are present and of a shape that decodes.
JHasMandatoryFields(v) ==
    /\ JHasString(v, "name")
    /\ JHasString(v, "description")
    /\ HasKey(v.o, "recipeIngredient")
    /\ (\/ Get(v.o, "recipeIngredient").t = "str"
        \/ JIsStrings(Get(v.o, "recipeIngredient")))

\* C5: every optional Recipe field degrades to absence by itself: an object
\* with valid name, description and recipeIngredient decodes whatever it
\* carries under cookTime, prepTime, totalTime, recipeYield and
\* recipeInstructions, and a value that matches none of a field's shapes
\* leaves that field absent.
C5_OptionalFieldsDegrade ==
    op = "Recipe" /\ input.t = "obj" /\ JHasMandatoryFields(input) =>
        /\ decoded.ok
        /\ (HasKey(input.o, "recipeYield") /\ ~DeYield(Get(input.o, "recipeYield")).ok)
           => decoded.v.yields = None
        /\ (/\ HasKey(input.o, "recipeInstructions")
            /\ ~DeInstructionList(Get(input.o, "recipeInstructions")).ok)
           => decoded.v.directions = None

\* The top-level shapes an envelope is expected to have: a "@graph"
\* container of objects, a single object, or an array of objects.
JIsGraphOfObjects(v) ==
    v.t = "obj" /\ HasKey(v.o, "@graph") /\ JIsObjects(Get(v.o, "@graph"))

JIsEnvelopeShaped(v) ==
    \/ JIsGraphOfObjects(v)
    \/ v.t = "obj" /\ ~HasKey(v.o, "@graph")
    \/ JIsObjects(v)

\* The entries of a decoded envelope, in order.
Entries(e) ==
    CASE e.k = "Graph"  -> e.graph
      [] e.k = "Single" -> <<e.item>>
      [] e.k = "Multi"  -> e.items

\* C1: decoding an envelope never fails because a contained object is not a
\* recipe: a "@graph" container of objects, a single object and an array of
\* objects all decode to an envelope, whether or not the objects that are
\* no recipes carry "@id" or "@context".
C1_EnvelopeNeverFailsOnSiblings ==
    op = "SchemaEntry" /\ JIsEnvelopeShaped(input) =>
        /\ decoded.ok
        /\ LET objs == IF JIsGraphOfObjects(input) THEN Get(input.o, "@graph").a
                       ELSE IF input.t = "obj" THEN <<input>> ELSE input.a
               es   == Entries(decoded.v)
           IN  /\ Len(es) = Len(objs)
               /\ \A i \in DOMAIN objs :
                    es[i].k = (IF DeRecipe(objs[i]).ok THEN "Recipe" ELSE "Nonsense")

\* C2: extract_recipes returns exactly the entries that resolved to a
\* recipe, in source order, placeholders discarded, equal recipes kept; a
\* "@graph" of one recipe and one object with only "@id" yields exactly one
\* recipe, and a Single envelope at most one.
C2_ExtractRecipes ==
    op = "extract_recipes" =>
        LET es  == Entries(decoded.v)
            rec == {i \in DOMAIN es : es[i].k = "Recipe"}
        IN  /\ Len(out) = Cardinality(rec)
            /\ \A i \in rec : out[Rank(rec, i)] = es[i].r
            /\ decoded.v.k = "Single" => Len(out) <= 1
            /\ input = JObj(<< <<"@graph", JArr(<<RecipeObj("n1"),
                                    JObj(<< <<"@id", JStr("#org")>> >>)>>)>> >>)
               => Len(out) = 1 /\ out[1].name = "n1"
            /\ input = JArr(<<RecipeObj("n1"), RecipeObj("n1")>>) => Len(out) = 2

\* A "@graph" of one recipe and one object with only "@id" gave one recipe.
C2_Witness ==
    /\ op = "extract_recipes"
    /\ input = JObj(<< <<"@graph", JArr(<<RecipeObj("n1"),
                            JObj(<< <<"@id", JStr("#org")>> >>)>>)>> >>)
    /\ Len(out) = 1

\* C3: scrape_html returns, in document order, one envelope for each
\* script[type="application/ld+json"] element whose concatenated text
\* decodes as a SchemaEntry; a block that fails to decode is dropped and
\* does not affect the others, and the result is always a collection: a
\* valid block next to a malformed one gives one envelope, and a document
\* of malformed blocks gives what a document without blocks gives.
C3_ScrapeHtml ==
    op = "scrape_html" =>
        LET Block(i) == from_json_str(Concat(input[i].text))
            good == {i \in DOMAIN input :
                        /\ input[i].tag = "script"
                        /\ input[i].type = "application/ld+json"
                        /\ Block(i).ok}
        IN  /\ Len(decoded) = Cardinality(good)
            /\ \A i \in good : decoded[Rank(good, i)] = Block(i).v
            /\ input = <<Script(<<TextRecipeHead, TextRecipeTail>>),
                         Script(<<TextRecipeHead>>)>>
               => Len(decoded) = 1 /\ decoded[1].k = "Single"
            /\ input = <<Script(<<TextRecipeHead>>), Script(<<>>)>> => decoded = <<>>

\* A valid recipe block followed by a malformed one gave one envelope.
C3_Witness ==
    /\ op = "scrape_html"
    /\ input = <<Script(<<TextRecipeHead, TextRecipeTail>>), Script(<<TextRecipeHead>>)>>
    /\ Len(decoded) = 1

\* A "@graph" entry that matches neither variant of GraphEntry: not a
\* Recipe and not an object with a string "@id".
JIsUnmatchedEntry(v) == ~DeRecipe(v).ok /\ ~JHasString(v, "@id")

\* A top-level object whose "@graph" array holds an unmatched entry.
JHasUnmatchedEntry(v) ==
    /\ v.t = "obj"
    /\ HasKey(v.o, "@graph")
    /\ Get(v.o, "@graph").t = "arr"
    /\ \E i \in DOMAIN Get(v.o, "@graph").a : JIsUnmatchedEntry(Get(v.o, "@graph").a[i])

\* What the fall-through gives: with a string "@context" a placeholder, out
\* of which no recipe is extracted; without "@context" an error.
FallsThroughToPlaceholder ==
    /\ JHasString(input, "@context") =>
        /\ decoded.ok
        /\ decoded.v.k = "Single"
        /\ decoded.v.item.k = "Nonsense"
        /\ op = "extract_recipes" => out = <<>>
    /\ ~HasKey(input.o, "@context") => ~decoded.ok

\* C10 as stated: one unmatched "@graph" entry rejects the whole container
\* and the top-level object is retried as a single item, which decodes as a
\* placeholder when the object carries a string "@context" (extract_recipes
\* then returns no recipe, whatever the graph held) and is an error when it
\* carries no "@context".
C10_GraphFallsThrough ==
    op \in {"SchemaEntry", "extract_recipes"} /\ JHasUnmatchedEntry(input)
        => FallsThroughToPlaceholder

\* C10, amended: the same, for a top-level object that does not itself
\* decode as a Recipe; one that does (it carries name, description and
\* recipeIngredient next to "@graph") is retried as a single item too and
\* decodes as that one recipe, with or without "@context".
C10_GraphFallsThroughUnlessRecipe ==
    op \in {"SchemaEntry", "extract_recipes"} /\ JHasUnmatchedEntry(input) =>
        IF DeRecipe(input).ok
        THEN /\ decoded.ok
             /\ decoded.v.k = "Single"
             /\ decoded.v.item.k = "Recipe"
             /\ op = "extract_recipes" => out = <<DeRecipe(input).v>>
        ELSE FallsThroughToPlaceholder

\* A graph of a valid recipe and an object with neither "@id" nor recipe
\* fields, under a "@context": decoded, and no recipe extracted.
C10_Witness ==
    /\ op = "extract_recipes"
    /\ input = JObj(<< <<"@graph", JArr(<<RecipeObj("n1"),
                            JObj(<< <<"@type", JStr("Organization")>> >>)>>)>>,
                       <<"@context", JStr("c")>> >>)
    /\ out = <<>>

\* A section: an object with name and itemListElement and, if positional
\* sections count, also the array [name, [instructions]].
JIsSection(v, positional) == JIsSectionObject(v) \/ (positional /\ JIsSectionArray(v))

\* What C6 says whatever a section is taken to be: Single for a string or
\* an object with a text; for an array, Multi iff every element is one of
\* those, else Sections iff every element is a section, and an error only
\* if no candidate matches; ["a", {"name":"b","text":"c"}] is Multi and
\* renders as ["a","c"], with no sections view.
InstructionListResolves(positional) ==
    /\ op = "InstructionList" =>
        /\ JIsInstruction(input) => decoded.ok /\ decoded.v.k = "Single"
        /\ input.t = "arr" =>
            LET multi    == \A i \in DOMAIN input.a : JIsInstruction(input.a[i])
                sectioned == \A i \in DOMAIN input.a : JIsSection(input.a[i], positional)
            IN  /\ multi <=> decoded.ok /\ decoded.v.k = "Multi"
                /\ ~multi => (sectioned <=> decoded.ok /\ decoded.v.k = "Sections")
                /\ ~decoded.ok <=> ~multi /\ ~sectioned
        /\ ~JIsInstruction(input) /\ input.t # "arr" => ~decoded.ok
    /\ op = "views" =>
        /\ input = JArr(<<JStr("a"), StepObj>>)
           => out = [directions |-> Some(<<"a", "c">>), sections |-> None]
        /\ decoded.v.k = "Sections" <=> out.directions = None
        /\ decoded.v.k = "Sections" <=> out.sections # None

\* C6 as stated: the array resolves to Sections iff every element has name
\* and itemListElement (is an object with the two keys).
C6_InstructionListOrder == InstructionListResolves(FALSE)

\* C6, amended: a section is an object with name and itemListElement or the
\* two given positionally, as the array [name, [instructions...]].
C6_InstructionListOrderWithPositionalSections == InstructionListResolves(TRUE)

\* The mixed array of the example decoded as Multi and rendered.
C6_Witness ==
    /\ op = "views"
    /\ input = JArr(<<JStr("a"), StepObj>>)
    /\ decoded.v.k = "Multi"
    /\ out.directions = Some(<<"a", "c">>)

====
